---- MODULE Spec2Model ----
(***************************************************************************)
(* Model of OathstoneClient (src/src/index.js): configuration              *)
(* normalisation, RPC endpoint resolution, the provider (connection)       *)
(* registry, the contract (binding) registry, and the balance / transfer   *)
(* calls that read them.                                                   *)
(*                                                                         *)
(* JavaScript values are encoded as follows.                               *)
(*   undefined            the string Absent                                *)
(*   a string             itself ("" is the empty, falsy string)           *)
(*   this.config.networks a sequence of network records in the order of    *)
(*                        Object.entries (insertion order of the names)    *)
(*   net.tokens           a sequence of token records, same convention;    *)
(*                        a missing tokens table is the empty sequence     *)
(*                        (net.tokens || {})                               *)
(*   a provider object    a record [net, url, id]; id tells apart objects  *)
(*                        made by different connectNetworks runs           *)
(*   a contract object    a record [address, abi, runner]                  *)
(*   net.rpcUrl           hasRpcUrl tells whether the entry has an rpcUrl  *)
(*                        object; testnet and mainnet are its two fields   *)
(*   token.decimals       <<>> when not a number, <<d>> for the number d   *)
(***************************************************************************)
EXTENDS Integers, Sequences, FiniteSets, TLC

\* ------------------------------------------------------------------------
\* Bounds of the exploration
\* ------------------------------------------------------------------------
MaxNetworks == 2
MaxTokens == 2
MaxGen == 2

\* ------------------------------------------------------------------------
\* JavaScript value helpers
\* ------------------------------------------------------------------------
Absent == "absent"

\* !x is false exactly for a non-empty string
Truthy(x) == x # Absent /\ x # ""

\* a || b
JsOr(a, b) == IF Truthy(a) THEN a ELSE b

\* Number(x) for x of the declared type number is x itself
ToNumber(x) == x

NetNameAt == <<"celo", "polygon", "base", "bsc">>
TokNameAt == <<"USD", "EUR", "GBP", "JPY">>

\* names a caller may pass: the configurable ones and one never configured
AllNets == {NetNameAt[i] : i \in 1..(MaxNetworks + 1)}
AllToks == {TokNameAt[i] : i \in 1..MaxTokens}

SeqsUpTo(S, n) == UNION {[1..k -> S] : k \in 0..n}

\* ------------------------------------------------------------------------
\* Input configurations
\* ------------------------------------------------------------------------
\* token entries without their name: contractAddress, address, decimals, abi
TokenShapes ==
  { [contractAddress |-> "0xA", address |-> Absent, decimals |-> <<>>, abi |-> Absent],
    [contractAddress |-> Absent, address |-> "0xB", decimals |-> <<2>>, abi |-> "custom"],
    [contractAddress |-> Absent, address |-> Absent, decimals |-> <<>>, abi |-> Absent] }

\* network entries without name and tokens
NetShapes ==
  { [environment |-> 0, hasRpcUrl |-> TRUE, testnet |-> "t", mainnet |-> "m"],
    [environment |-> 1, hasRpcUrl |-> TRUE, testnet |-> "t", mainnet |-> Absent],
    [environment |-> 0, hasRpcUrl |-> TRUE, testnet |-> Absent, mainnet |-> Absent],
    [environment |-> 1, hasRpcUrl |-> FALSE, testnet |-> Absent, mainnet |-> Absent] }

WideTokenShapes ==
  [contractAddress : {Absent, "", "0xA"}, address : {Absent, "", "0xB"},
   decimals : {<<>>}, abi : {Absent}]

WideNetShapes ==
  [environment : {0, 1, 2}, hasRpcUrl : {TRUE}, testnet : {Absent, "", "t"},
   mainnet : {Absent, "", "m"}]
  \cup [environment : {0, 1}, hasRpcUrl : {FALSE}, testnet : {Absent}, mainnet : {Absent}]

MkToken(i, sh) ==
  [name |-> TokNameAt[i], contractAddress |-> sh.contractAddress,
   address |-> sh.address, decimals |-> sh.decimals, abi |-> sh.abi]

MkTokens(shs) == [i \in 1..Len(shs) |-> MkToken(i, shs[i])]

MkNet(i, sh, toks) ==
  [name |-> NetNameAt[i], environment |-> sh.environment, hasRpcUrl |-> sh.hasRpcUrl,
   testnet |-> sh.testnet, mainnet |-> sh.mainnet, tokens |-> toks]

\* configurations of the client runs: up to MaxNetworks networks, every
\* network carrying the same token table of up to MaxTokens tokens
Configs ==
  { [i \in 1..Len(ns) |-> MkNet(i, ns[i], MkTokens(ts))] :
      ns \in SeqsUpTo(NetShapes, MaxNetworks),
      ts \in SeqsUpTo(TokenShapes, MaxTokens) }

\* configurations of the normalisation runs: one network, at most one token,
\* every combination of absent / empty / set fields
WideConfigs ==
  { <<MkNet(1, n, MkTokens(ts))>> :
      n \in WideNetShapes, ts \in SeqsUpTo(WideTokenShapes, 1) }

\* ------------------------------------------------------------------------
\* State
\* ------------------------------------------------------------------------
VARIABLES
  rawConfig,   \* the constructor's argument (config.networks)
  client,      \* "none" before the constructor, then "ready" or "failed"
  config,      \* this.config.networks
  providers,   \* this.providers
  contracts,   \* this.contracts
  gen,         \* number of connectNetworks runs that created providers
  calls,       \* the async calls of each caller
  resolved     \* outcome of the last static resolveRpcUrl call

vars == <<rawConfig, client, config, providers, contracts, gen, calls, resolved>>

Callers == {"c1", "c2"}
Sequential == {"c1"}

NoConn == [net |-> Absent, url |-> Absent, id |-> 0]
NoBinding == [address |-> Absent, abi |-> Absent, runner |-> NoConn]
NoEntry == [init |-> FALSE, tokens |-> [t \in AllToks |-> NoBinding]]

NetNamesOf(cfg) == {cfg[i].name : i \in 1..Len(cfg)}

\* ------------------------------------------------------------------------
\* Static helpers of the class
\* ------------------------------------------------------------------------
\* variant of NormToken: the alias address wins over contractAddress
NormTokenAddressFirst(tk) ==
  [tk EXCEPT !.contractAddress = JsOr(tk.address, tk.contractAddress)]

\* validateConfig, inner loop: one normalised token
NormToken(tk) == [tk EXCEPT !.contractAddress = JsOr(tk.contractAddress, tk.address)]

NormTokens(toks) == [i \in 1..Len(toks) |-> NormToken(toks[i])]

\* variant of ValidateConfig: also throws on an rpcUrl object that has
\* neither endpoint
ValidateConfigStrict(nets) ==
  IF \E i \in 1..Len(nets) :
       ~nets[i].hasRpcUrl \/ (nets[i].testnet = Absent /\ nets[i].mainnet = Absent)
    THEN [ok |-> FALSE, networks |-> <<>>]
    ELSE [ok |-> TRUE,
          networks |-> [i \in 1..Len(nets) |->
                          [nets[i] EXCEPT !.tokens = NormTokens(nets[i].tokens)]]]

\* validateConfig: throws when a network has no rpcUrl, else returns the
\* copy whose tokens all carry contractAddress = contractAddress || address
ValidateConfig(nets) ==
  IF \E i \in 1..Len(nets) : ~nets[i].hasRpcUrl
    THEN [ok |-> FALSE, networks |-> <<>>]
    ELSE [ok |-> TRUE,
          networks |-> [i \in 1..Len(nets) |->
                          [nets[i] EXCEPT !.tokens = NormTokens(nets[i].tokens)]]]

\* networkConfig.rpcUrl?.testnet / .mainnet
RpcField(net, isTestnet) ==
  IF ~net.hasRpcUrl THEN Absent
  ELSE IF isTestnet THEN net.testnet ELSE net.mainnet

\* variant of ResolveRpcUrl: falls back to the other endpoint when the
\* selected one is missing
ResolveRpcUrlFallback(net) ==
  LET isTestnet == ToNumber(net.environment) = 0
      rpcUrl == JsOr(RpcField(net, isTestnet), RpcField(net, ~isTestnet))
  IN  IF ~Truthy(rpcUrl) THEN [ok |-> FALSE, url |-> Absent]
      ELSE [ok |-> TRUE, url |-> rpcUrl]

\* resolveRpcUrl: the endpoint picked by the environment flag, or a throw
ResolveRpcUrl(net) ==
  LET isTestnet == ToNumber(net.environment) = 0
      rpcUrl == RpcField(net, isTestnet)
  IN  IF ~Truthy(rpcUrl) THEN [ok |-> FALSE, url |-> Absent]
      ELSE [ok |-> TRUE, url |-> rpcUrl]

\* ------------------------------------------------------------------------
\* Bodies of connectNetworks and loadContracts (synchronous code)
\* ------------------------------------------------------------------------
\* variant of ConnectLoop: an entry whose endpoint does not resolve is
\* skipped and the loop goes on; the call still fails at the end
RECURSIVE ConnectLoopSkipping(_, _, _, _)
ConnectLoopSkipping(cfg, i, provs, id) ==
  IF i > Len(cfg)
    THEN [ok |-> \A k \in 1..Len(cfg) : ResolveRpcUrl(cfg[k]).ok, providers |-> provs]
  ELSE LET r == ResolveRpcUrl(cfg[i])
       IN  IF ~r.ok THEN ConnectLoopSkipping(cfg, i + 1, provs, id)
           ELSE ConnectLoopSkipping(cfg, i + 1,
                  [provs EXCEPT ![cfg[i].name] =
                     [net |-> cfg[i].name, url |-> r.url, id |-> id]],
                  id)

\* connectNetworks, the loop from entry i on: stops at the first throw of
\* resolveRpcUrl and keeps the providers stored so far
RECURSIVE ConnectLoop(_, _, _, _)
ConnectLoop(cfg, i, provs, id) ==
  IF i > Len(cfg) THEN [ok |-> TRUE, providers |-> provs]
  ELSE LET r == ResolveRpcUrl(cfg[i])
       IN  IF ~r.ok THEN [ok |-> FALSE, providers |-> provs]
           ELSE ConnectLoop(cfg, i + 1,
                  [provs EXCEPT ![cfg[i].name] =
                     [net |-> cfg[i].name, url |-> r.url, id |-> id]],
                  id)

\* Object.keys(this.providers).length
ProviderCount(provs) == Cardinality({n \in AllNets : provs[n] # NoConn})

\* variant of TokenLoop: a token that is bound already keeps its contract
RECURSIVE TokenLoopKeeping(_, _, _, _)
TokenLoopKeeping(toks, j, bindings, provider) ==
  IF j > Len(toks) THEN bindings
  ELSE LET tokenConfig == toks[j]
           address == JsOr(tokenConfig.contractAddress, tokenConfig.address)
           abi == IF tokenConfig.abi # Absent THEN tokenConfig.abi ELSE "erc20"
       IN  IF ~Truthy(address) \/ bindings[tokenConfig.name] # NoBinding
             THEN TokenLoopKeeping(toks, j + 1, bindings, provider)
           ELSE TokenLoopKeeping(toks, j + 1,
                  [bindings EXCEPT ![tokenConfig.name] =
                     [address |-> address, abi |-> abi, runner |-> provider]],
                  provider)

\* variant of TokenLoop: a token without address is bound all the same
RECURSIVE TokenLoopNoSkip(_, _, _, _)
TokenLoopNoSkip(toks, j, bindings, provider) ==
  IF j > Len(toks) THEN bindings
  ELSE LET tokenConfig == toks[j]
           address == JsOr(tokenConfig.contractAddress, tokenConfig.address)
           abi == IF tokenConfig.abi # Absent THEN tokenConfig.abi ELSE "erc20"
       IN  TokenLoopNoSkip(toks, j + 1,
             [bindings EXCEPT ![tokenConfig.name] =
                [address |-> address, abi |-> abi, runner |-> provider]],
             provider)

\* loadContracts, the inner loop over one network's tokens from entry j on
RECURSIVE TokenLoop(_, _, _, _)
TokenLoop(toks, j, bindings, provider) ==
  IF j > Len(toks) THEN bindings
  ELSE LET tokenConfig == toks[j]
           address == JsOr(tokenConfig.contractAddress, tokenConfig.address)
           abi == IF tokenConfig.abi # Absent THEN tokenConfig.abi ELSE "erc20"
       IN  IF ~Truthy(address) THEN TokenLoop(toks, j + 1, bindings, provider)
           ELSE TokenLoop(toks, j + 1,
                  [bindings EXCEPT ![tokenConfig.name] =
                     [address |-> address, abi |-> abi, runner |-> provider]],
                  provider)

\* variant of LoadLoop: a network whose table exists already is reset to an
\* empty table instead of being rebuilt
RECURSIVE LoadLoopResetting(_, _, _, _)
LoadLoopResetting(cfg, i, ctrs, provs) ==
  IF i > Len(cfg) THEN ctrs
  ELSE LET networkName == cfg[i].name
           bindings == IF ctrs[networkName].init THEN NoEntry.tokens
                       ELSE TokenLoop(cfg[i].tokens, 1, ctrs[networkName].tokens,
                                      provs[networkName])
       IN  LoadLoopResetting(cfg, i + 1,
             [ctrs EXCEPT ![networkName] = [init |-> TRUE, tokens |-> bindings]],
             provs)

\* loadContracts, the outer loop over the networks from entry i on
RECURSIVE LoadLoop(_, _, _, _)
LoadLoop(cfg, i, ctrs, provs) ==
  IF i > Len(cfg) THEN ctrs
  ELSE LET networkName == cfg[i].name
           bindings == TokenLoop(cfg[i].tokens, 1, ctrs[networkName].tokens,
                                 provs[networkName])
       IN  LoadLoop(cfg, i + 1,
             [ctrs EXCEPT ![networkName] = [init |-> TRUE, tokens |-> bindings]],
             provs)

\* getProvider / getContract
GetProvider(network) == providers[network]
GetContract(network, tokenName) == contracts[network].tokens[tokenName]

\* ------------------------------------------------------------------------
\* Calls in flight
\* ------------------------------------------------------------------------
DefaultDecimals == 18
EtherDecimals == 18

\* what decimals() answers on chain when it answers
OnChainDecimals == {6}

\* amounts as the digits of amount.toString(): whole part, fractional part
\* "5.5", "1.500" and "0.0000001"
Amounts ==
  { [whole |-> <<5>>, frac |-> <<5>>],
    [whole |-> <<1>>, frac |-> <<5, 0, 0>>],
    [whole |-> <<0>>, frac |-> <<0, 0, 0, 0, 0, 0, 1>>] }

NoAmount == [whole |-> <<>>, frac |-> <<>>]

Idle ==
  [op |-> "none", pc |-> "idle", net |-> Absent, tok |-> Absent, result |-> "none",
   bootstrapped |-> FALSE, connectOk |-> TRUE, provider |-> NoConn, contract |-> NoBinding,
   bal |-> "none", dec |-> "none", decimals |-> <<>>, value |-> <<>>,
   amount |-> NoAmount,
   nativeReads |-> 0, balReads |-> 0, decReads |-> 0, submits |-> 0, waits |-> 0]

Started(op, network, tokenName) ==
  [Idle EXCEPT !.op = op, !.net = network, !.tok = tokenName]

Done(call, result) == [call EXCEPT !.pc = "done", !.result = result]

CanStart(c) == client = "ready" /\ calls[c].pc \in {"idle", "done"}

RegistryUnchanged == UNCHANGED <<rawConfig, client, config, providers, contracts, gen>>

\* ------------------------------------------------------------------------
\* Construction
\* ------------------------------------------------------------------------
NoProviders == [n \in AllNets |-> NoConn]
NoContracts == [n \in AllNets |-> NoEntry]
NoResolved == [asked |-> FALSE, index |-> 0, ok |-> FALSE, url |-> Absent]

InitWith(raws) ==
  /\ rawConfig \in raws
  /\ client = "none"
  /\ config = <<>>
  /\ providers = NoProviders
  /\ contracts = NoContracts
  /\ gen = 0
  /\ calls = [c \in Callers |-> Idle]
  /\ resolved = NoResolved

Init ==
  InitWith([hasNetworks : {TRUE}, networks : Configs]
           \cup {[hasNetworks |-> FALSE, networks |-> <<>>]})

\* new OathstoneClient(config)
Constructor ==
  /\ client = "none"
  /\ LET v == ValidateConfig(rawConfig.networks)
     IN  IF ~rawConfig.hasNetworks \/ ~v.ok
           THEN client' = "failed" /\ config' = config
           ELSE client' = "ready" /\ config' = v.networks
  /\ providers' = NoProviders
  /\ contracts' = NoContracts
  /\ UNCHANGED <<rawConfig, gen, calls, resolved>>

\* OathstoneClient.resolveRpcUrl(config.networks[name]) called by the
\* application on an entry of the configuration it passed in
ResolveRpcUrlCall(i) ==
  /\ rawConfig.hasNetworks
  /\ i \in 1..Len(rawConfig.networks)
  /\ LET r == ResolveRpcUrl(rawConfig.networks[i])
     IN  resolved' = [asked |-> TRUE, index |-> i, ok |-> r.ok, url |-> r.url]
  /\ UNCHANGED <<rawConfig, client, config, providers, contracts, gen, calls>>

\* ------------------------------------------------------------------------
\* connectNetworks and loadContracts
\* ------------------------------------------------------------------------
\* the run of connectNetworks' body on the current registry
ConnectRun == ConnectLoop(config, 1, providers, gen + 1)

GenAfter(run) == IF run.providers # providers THEN gen + 1 ELSE gen

\* await client.connectNetworks(): the body has no suspension point
ConnectNetworks(c) ==
  /\ CanStart(c)
  /\ gen < MaxGen
  /\ LET run == ConnectRun
     IN  /\ providers' = run.providers
         /\ gen' = GenAfter(run)
         /\ calls' = [calls EXCEPT ![c] =
                        Done(Started("connectNetworks", Absent, Absent),
                             IF run.ok THEN "true" ELSE "ConfigError")]
  /\ UNCHANGED <<rawConfig, client, config, contracts, resolved>>

\* variant of LoadContracts: connectNetworks is run first whether or not
\* providers exist
LoadContractsReconnecting(c) ==
  /\ CanStart(c)
  /\ gen < MaxGen
  /\ LET run == ConnectRun
     IN  /\ providers' = run.providers
         /\ gen' = GenAfter(run)
         /\ calls' = [calls EXCEPT ![c] =
                        [Started("loadContracts", Absent, Absent) EXCEPT
                           !.pc = "awaitConnect", !.bootstrapped = TRUE,
                           !.connectOk = run.ok]]
         /\ UNCHANGED contracts
  /\ UNCHANGED <<rawConfig, client, config, resolved>>

\* variant of LoadContracts: the bindings are built at once, whether or not
\* any provider exists
LoadContractsNoBootstrap(c) ==
  /\ CanStart(c)
  /\ contracts' = LoadLoop(config, 1, contracts, providers)
  /\ calls' = [calls EXCEPT ![c] =
                 Done(Started("loadContracts", Absent, Absent), "true")]
  /\ UNCHANGED <<rawConfig, client, config, providers, gen, resolved>>

\* loadContracts up to its first suspension: with providers present the
\* whole body runs; with none, connectNetworks runs and the call suspends
\* on its promise
LoadContracts(c) ==
  /\ CanStart(c)
  /\ IF ProviderCount(providers) # 0
       THEN /\ contracts' = LoadLoop(config, 1, contracts, providers)
            /\ calls' = [calls EXCEPT ![c] =
                           Done(Started("loadContracts", Absent, Absent), "true")]
            /\ UNCHANGED <<providers, gen>>
       ELSE LET run == ConnectRun
            IN  /\ providers' = run.providers
                /\ gen' = GenAfter(run)
                /\ calls' = [calls EXCEPT ![c] =
                               [Started("loadContracts", Absent, Absent) EXCEPT
                                  !.pc = "awaitConnect", !.bootstrapped = TRUE,
                                  !.connectOk = run.ok]]
                /\ UNCHANGED contracts
  /\ UNCHANGED <<rawConfig, client, config, resolved>>

\* variant of LoadContractsResume: the resumed call rejects when another
\* call has built the registry in the meantime
LoadContractsResumeRejecting(c) ==
  /\ calls[c].pc = "awaitConnect"
  /\ IF ~calls[c].connectOk \/ \E n \in AllNets : contracts[n].init
       THEN /\ calls' = [calls EXCEPT ![c] = Done(calls[c], "ConfigError")]
            /\ UNCHANGED contracts
       ELSE /\ contracts' = LoadLoop(config, 1, contracts, providers)
            /\ calls' = [calls EXCEPT ![c] = Done(calls[c], "true")]
  /\ UNCHANGED <<rawConfig, client, config, providers, gen, resolved>>

\* loadContracts resumed after await this.connectNetworks()
LoadContractsResume(c) ==
  /\ calls[c].pc = "awaitConnect"
  /\ IF ~calls[c].connectOk
       THEN /\ calls' = [calls EXCEPT ![c] = Done(calls[c], "ConfigError")]
            /\ UNCHANGED contracts
       ELSE /\ contracts' = LoadLoop(config, 1, contracts, providers)
            /\ calls' = [calls EXCEPT ![c] = Done(calls[c], "true")]
  /\ UNCHANGED <<rawConfig, client, config, providers, gen, resolved>>

\* ------------------------------------------------------------------------
\* Amount conversion (ethers.parseUnits on a decimal string)
\* ------------------------------------------------------------------------
Zeros(k) == [i \in 1..k |-> 0]

AllZero(s) == \A i \in 1..Len(s) : s[i] = 0

\* variant of ParseUnits: digits beyond d are cut off without complaint
ParseUnitsTruncating(amount, d) ==
  LET padded == amount.frac \o Zeros(IF Len(amount.frac) < d THEN d - Len(amount.frac) ELSE 0)
  IN  [ok |-> TRUE, value |-> amount.whole \o SubSeq(padded, 1, d)]

\* the digits of the smallest-unit value: the fraction is padded to d
\* digits; digits beyond d must all be zero, else the conversion throws
ParseUnits(amount, d) ==
  LET padded == amount.frac \o Zeros(IF Len(amount.frac) < d THEN d - Len(amount.frac) ELSE 0)
  IN  IF ~AllZero(SubSeq(padded, d + 1, Len(padded)))
        THEN [ok |-> FALSE, value |-> <<>>]
        ELSE [ok |-> TRUE, value |-> amount.whole \o SubSeq(padded, 1, d)]

\* variant of ConfigDecimals: the decimals of the configuration are not
\* looked up
ConfigDecimalsIgnored(network, tokenName) == <<>>

\* this.config.networks?.[network]?.tokens?.[tokenName]?.decimals
ConfigDecimals(network, tokenName) ==
  IF \E i \in 1..Len(config) : \E j \in 1..Len(config[i].tokens) :
       config[i].name = network /\ config[i].tokens[j].name = tokenName
    THEN LET i == CHOOSE i \in 1..Len(config) : config[i].name = network
             j == CHOOSE j \in 1..Len(config[i].tokens) :
                    config[i].tokens[j].name = tokenName
         IN  config[i].tokens[j].decimals
    ELSE <<>>

\* ------------------------------------------------------------------------
\* Accessors called by the application
\* ------------------------------------------------------------------------
\* client.getProvider(network)
GetProviderCall(c, network) ==
  /\ CanStart(c)
  /\ calls' = [calls EXCEPT ![c] =
       Done([Started("getProvider", network, Absent) EXCEPT
               !.provider = GetProvider(network)], "value")]
  /\ RegistryUnchanged /\ UNCHANGED resolved

\* client.getContract(network, tokenName)
GetContractCall(c, network, tokenName) ==
  /\ CanStart(c)
  /\ calls' = [calls EXCEPT ![c] =
       Done([Started("getContract", network, tokenName) EXCEPT
               !.contract = GetContract(network, tokenName)], "value")]
  /\ RegistryUnchanged /\ UNCHANGED resolved

\* ------------------------------------------------------------------------
\* Balance reads
\* ------------------------------------------------------------------------
\* variant of GetNativeBalance: without provider, the networks are connected
\* first
GetNativeBalanceConnecting(c, network) ==
  /\ CanStart(c)
  /\ LET provs == IF GetProvider(network) = NoConn THEN ConnectRun.providers
                  ELSE providers
         call == Started("getNativeBalance", network, Absent)
     IN  /\ providers' = provs
         /\ gen' = GenAfter([providers |-> provs])
         /\ calls' = [calls EXCEPT ![c] =
               IF provs[network] = NoConn THEN Done(call, "NotConnected")
               ELSE [call EXCEPT !.pc = "awaitNative", !.provider = provs[network],
                                 !.nativeReads = 1]]
  /\ UNCHANGED <<rawConfig, client, config, contracts, resolved>>

\* variant of GetNativeBalance: no check of the provider
GetNativeBalanceUnguarded(c, network) ==
  /\ CanStart(c)
  /\ calls' = [calls EXCEPT ![c] =
       [Started("getNativeBalance", network, Absent) EXCEPT
          !.pc = "awaitNative", !.provider = GetProvider(network), !.nativeReads = 1]]
  /\ RegistryUnchanged /\ UNCHANGED resolved

\* getNativeBalance up to the await on provider.getBalance
GetNativeBalance(c, network) ==
  /\ CanStart(c)
  /\ LET provider == GetProvider(network)
         call == Started("getNativeBalance", network, Absent)
     IN  calls' = [calls EXCEPT ![c] =
           IF provider = NoConn THEN Done(call, "NotConnected")
           ELSE [call EXCEPT !.pc = "awaitNative", !.provider = provider,
                             !.nativeReads = 1]]
  /\ RegistryUnchanged /\ UNCHANGED resolved

\* provider.getBalance settles; the result is formatted by formatEther
NativeBalanceSettles(c, ok) ==
  /\ calls[c].pc = "awaitNative"
  /\ calls' = [calls EXCEPT ![c] =
       IF ok THEN Done([calls[c] EXCEPT !.decimals = <<EtherDecimals>>], "balance")
       ELSE Done(calls[c], "TransportError")]
  /\ RegistryUnchanged /\ UNCHANGED resolved

\* variant of GetTokenBalance: no check of the contract
GetTokenBalanceUnguarded(c, network, tokenName) ==
  /\ CanStart(c)
  /\ calls' = [calls EXCEPT ![c] =
       [Started("getTokenBalance", network, tokenName) EXCEPT
          !.pc = "awaitReads", !.contract = GetContract(network, tokenName),
          !.bal = "pending", !.dec = "pending", !.balReads = 1, !.decReads = 1]]
  /\ RegistryUnchanged /\ UNCHANGED resolved

\* getTokenBalance up to the await on Promise.all: both reads are issued
GetTokenBalance(c, network, tokenName) ==
  /\ CanStart(c)
  /\ LET contract == GetContract(network, tokenName)
         call == Started("getTokenBalance", network, tokenName)
     IN  calls' = [calls EXCEPT ![c] =
           IF contract = NoBinding THEN Done(call, "NotFound")
           ELSE [call EXCEPT !.pc = "awaitReads", !.contract = contract,
                             !.bal = "pending", !.dec = "pending",
                             !.balReads = 1, !.decReads = 1]]
  /\ RegistryUnchanged /\ UNCHANGED resolved

\* variant of AfterRead: a failed decimals() rejects the call as a failed
\* balanceOf does
AfterReadNoFallback(call) ==
  IF call.bal = "failed" \/ call.dec = "failed" THEN Done(call, "TransportError")
  ELSE IF call.bal = "ok" /\ call.dec # "pending" THEN Done(call, "balance")
  ELSE call

\* Promise.all after one more read has settled: rejected as soon as
\* balanceOf is, fulfilled once both are (a failed decimals() counts as 18)
AfterRead(call) ==
  IF call.bal = "failed" THEN Done(call, "TransportError")
  ELSE IF call.bal = "ok" /\ call.dec # "pending" THEN Done(call, "balance")
  ELSE call

\* contract.balanceOf(address) settles; a contract without runner cannot call
BalanceOfSettles(c, ok) ==
  /\ calls[c].pc = "awaitReads"
  /\ calls[c].bal = "pending"
  /\ ok => calls[c].contract.runner # NoConn
  /\ calls' = [calls EXCEPT ![c] =
       AfterRead([calls[c] EXCEPT !.bal = IF ok THEN "ok" ELSE "failed"])]
  /\ RegistryUnchanged /\ UNCHANGED resolved

\* contract.decimals().catch(() => 18) settles inside getTokenBalance
DecimalsSettles(c, ok, d) ==
  /\ calls[c].pc = "awaitReads"
  /\ calls[c].dec = "pending"
  /\ ok => calls[c].contract.runner # NoConn
  /\ calls' = [calls EXCEPT ![c] =
       AfterRead([calls[c] EXCEPT
                    !.dec = IF ok THEN "ok" ELSE "failed",
                    !.decimals = IF ok THEN <<d>> ELSE <<DefaultDecimals>>])]
  /\ RegistryUnchanged /\ UNCHANGED resolved

\* ------------------------------------------------------------------------
\* Transfers
\* ------------------------------------------------------------------------
\* variant of Submit: an amount with digits beyond d is cut to d digits and
\* submitted
SubmitLenient(call, d) ==
  LET p == ParseUnitsTruncating(call.amount, d)
  IN  [call EXCEPT !.pc = "awaitSubmit", !.decimals = <<d>>,
                   !.value = p.value, !.submits = call.submits + 1]

\* the amount is converted with d decimals (a throw ends the call), then
\* the transaction is submitted; the private key is taken to be well formed
Submit(call, d) ==
  LET p == ParseUnits(call.amount, d)
  IN  IF ~p.ok THEN Done([call EXCEPT !.decimals = <<d>>], "InvalidAmount")
      ELSE [call EXCEPT !.pc = "awaitSubmit", !.decimals = <<d>>,
                        !.value = p.value, !.submits = call.submits + 1]

\* transferNative up to the await on signer.sendTransaction
TransferNative(c, network, amount) ==
  /\ CanStart(c)
  /\ LET provider == GetProvider(network)
         call == [Started("transferNative", network, Absent) EXCEPT !.amount = amount]
     IN  calls' = [calls EXCEPT ![c] =
           IF provider = NoConn THEN Done(call, "NotConnected")
           ELSE Submit([call EXCEPT !.provider = provider], EtherDecimals)]
  /\ RegistryUnchanged /\ UNCHANGED resolved

\* transferToken up to its first await: contract.decimals() when the
\* configuration names no decimals, else the submission
TransferToken(c, network, tokenName, amount) ==
  /\ CanStart(c)
  /\ LET provider == GetProvider(network)
         contract == GetContract(network, tokenName)
         decimalsFromConfig == ConfigDecimals(network, tokenName)
         call == [Started("transferToken", network, tokenName) EXCEPT !.amount = amount]
         bound == [call EXCEPT !.provider = provider, !.contract = contract]
     IN  calls' = [calls EXCEPT ![c] =
           IF provider = NoConn THEN Done(call, "NotConnected")
           ELSE IF contract = NoBinding THEN Done(call, "NotFound")
           ELSE IF decimalsFromConfig # <<>> THEN Submit(bound, decimalsFromConfig[1])
           ELSE [bound EXCEPT !.pc = "awaitDecimals", !.dec = "pending",
                              !.decReads = 1]]
  /\ RegistryUnchanged /\ UNCHANGED resolved

\* contract.decimals().catch(() => 18) settles inside transferToken
TransferDecimalsSettles(c, ok, d) ==
  /\ calls[c].pc = "awaitDecimals"
  /\ ok => calls[c].contract.runner # NoConn
  /\ calls' = [calls EXCEPT ![c] =
       Submit([calls[c] EXCEPT !.dec = IF ok THEN "ok" ELSE "failed"],
              IF ok THEN d ELSE DefaultDecimals)]
  /\ RegistryUnchanged /\ UNCHANGED resolved

\* variant of SubmitSettles: a rejected submission is sent once more
SubmitSettlesRetrying(c, ok) ==
  /\ calls[c].pc = "awaitSubmit"
  /\ calls' = [calls EXCEPT ![c] =
       IF ok THEN [calls[c] EXCEPT !.pc = "awaitConfirm", !.waits = calls[c].waits + 1]
       ELSE IF calls[c].submits < 2 THEN [calls[c] EXCEPT !.submits = calls[c].submits + 1]
       ELSE Done(calls[c], "SubmissionError")]
  /\ RegistryUnchanged /\ UNCHANGED resolved

\* sendTransaction / transfer settles: rejected, or a transaction response
\* on which tx.wait() is then called
SubmitSettles(c, ok) ==
  /\ calls[c].pc = "awaitSubmit"
  /\ calls' = [calls EXCEPT ![c] =
       IF ok THEN [calls[c] EXCEPT !.pc = "awaitConfirm", !.waits = calls[c].waits + 1]
       ELSE Done(calls[c], "SubmissionError")]
  /\ RegistryUnchanged /\ UNCHANGED resolved

\* tx.wait() settles: the receipt, or its rejection
ConfirmSettles(c, ok) ==
  /\ calls[c].pc = "awaitConfirm"
  /\ calls' = [calls EXCEPT ![c] =
       Done(calls[c], IF ok THEN "receipt" ELSE "ConfirmError")]
  /\ RegistryUnchanged /\ UNCHANGED resolved

\* ------------------------------------------------------------------------
\* Specifications
\* ------------------------------------------------------------------------
\* one application task that awaits every call before the next one
Next ==
  \/ Constructor
  \/ \E c \in Sequential : ConnectNetworks(c)
  \/ \E c \in Sequential : LoadContracts(c)
  \/ \E c \in Sequential : LoadContractsResume(c)
  \/ \E c \in Sequential, n \in AllNets : GetProviderCall(c, n)
  \/ \E c \in Sequential, n \in AllNets, t \in AllToks : GetContractCall(c, n, t)
  \/ \E c \in Sequential, n \in AllNets : GetNativeBalance(c, n)
  \/ \E c \in Sequential, ok \in BOOLEAN : NativeBalanceSettles(c, ok)
  \/ \E c \in Sequential, n \in AllNets, t \in AllToks : GetTokenBalance(c, n, t)
  \/ \E c \in Sequential, ok \in BOOLEAN : BalanceOfSettles(c, ok)
  \/ \E c \in Sequential, ok \in BOOLEAN, d \in OnChainDecimals : DecimalsSettles(c, ok, d)
  \/ \E c \in Sequential, n \in AllNets, a \in Amounts : TransferNative(c, n, a)
  \/ \E c \in Sequential, n \in AllNets, t \in AllToks, a \in Amounts :
       TransferToken(c, n, t, a)
  \/ \E c \in Sequential, ok \in BOOLEAN, d \in OnChainDecimals :
       TransferDecimalsSettles(c, ok, d)
  \/ \E c \in Sequential, ok \in BOOLEAN : SubmitSettles(c, ok)
  \/ \E c \in Sequential, ok \in BOOLEAN : ConfirmSettles(c, ok)

Spec == Init /\ [][Next]_vars

\* two application tasks calling connectNetworks / loadContracts on the same
\* client without waiting for each other
NextRegistry ==
  \/ Constructor
  \/ \E c \in Callers : ConnectNetworks(c)
  \/ \E c \in Callers : LoadContracts(c)
  \/ \E c \in Callers : LoadContractsResume(c)

SpecRegistry == Init /\ [][NextRegistry]_vars

\* two application tasks calling any operation on the same client without
\* waiting for each other, on the configurations of one network with a
\* resolvable endpoint and one token
ConcurrentConfigs ==
  {cfg \in Configs :
     Len(cfg) = 1 /\ ResolveRpcUrl(cfg[1]).ok /\ Len(cfg[1].tokens) = 1}

\* what the two tasks pass: the configured network or one that is not, the
\* configured token, an amount that converts at any decimals or one that
\* does not
ConcurrentNets == {NetNameAt[1], NetNameAt[2]}
ConcurrentToks == {TokNameAt[1]}
ConcurrentAmounts == {a \in Amounts : Len(a.frac) # 3}

InitConcurrent == InitWith([hasNetworks : {TRUE}, networks : ConcurrentConfigs])

NextConcurrent ==
  \/ Constructor
  \/ \E c \in Callers : ConnectNetworks(c)
  \/ \E c \in Callers : LoadContracts(c)
  \/ \E c \in Callers : LoadContractsResume(c)
  \/ \E c \in Callers, n \in ConcurrentNets : GetProviderCall(c, n)
  \/ \E c \in Callers, n \in ConcurrentNets, t \in ConcurrentToks :
       GetContractCall(c, n, t)
  \/ \E c \in Callers, n \in ConcurrentNets : GetNativeBalance(c, n)
  \/ \E c \in Callers, ok \in BOOLEAN : NativeBalanceSettles(c, ok)
  \/ \E c \in Callers, n \in ConcurrentNets, t \in ConcurrentToks :
       GetTokenBalance(c, n, t)
  \/ \E c \in Callers, ok \in BOOLEAN : BalanceOfSettles(c, ok)
  \/ \E c \in Callers, ok \in BOOLEAN, d \in OnChainDecimals : DecimalsSettles(c, ok, d)
  \/ \E c \in Callers, n \in ConcurrentNets, a \in ConcurrentAmounts :
       TransferNative(c, n, a)
  \/ \E c \in Callers, n \in ConcurrentNets, t \in ConcurrentToks,
          a \in ConcurrentAmounts : TransferToken(c, n, t, a)
  \/ \E c \in Callers, ok \in BOOLEAN, d \in OnChainDecimals :
       TransferDecimalsSettles(c, ok, d)
  \/ \E c \in Callers, ok \in BOOLEAN : SubmitSettles(c, ok)
  \/ \E c \in Callers, ok \in BOOLEAN : ConfirmSettles(c, ok)

SpecConcurrent == InitConcurrent /\ [][NextConcurrent]_vars

\* each of two application tasks calls loadContracts once on a fresh client
LoadContractsOnce(c) == calls[c].pc = "idle" /\ LoadContracts(c)

NextTwoLoads ==
  \/ Constructor
  \/ \E c \in Callers : LoadContractsOnce(c)
  \/ \E c \in Callers : LoadContractsResume(c)

SpecTwoLoads == Init /\ [][NextTwoLoads]_vars

\* normalisation and endpoint resolution over every shape of entry
InitConfig == InitWith([hasNetworks : {TRUE}, networks : WideConfigs])

NextConfig ==
  \/ Constructor
  \/ \E i \in 1..MaxNetworks : ResolveRpcUrlCall(i)

SpecConfig == InitConfig /\ [][NextConfig]_vars

\* ------------------------------------------------------------------------
\* Vocabulary of the properties
\* ------------------------------------------------------------------------
RawNets == rawConfig.networks

\* the endpoint field the environment flag points at, Absent without rpcUrl
SelectedEndpoint(net) ==
  IF ~net.hasRpcUrl THEN Absent
  ELSE IF net.environment = 0 THEN net.testnet ELSE net.mainnet

Resolvable(net) == SelectedEndpoint(net) \notin {Absent, ""}

\* neither testnet nor mainnet is set on the entry
LacksBothEndpoints(net) ==
  ~net.hasRpcUrl \/ (net.testnet = Absent /\ net.mainnet = Absent)

Supplied(a) == a \notin {Absent, ""}

\* index of the first configured network whose endpoint cannot be resolved,
\* Len(config) + 1 when every endpoint resolves
FirstUnresolved ==
  IF \E i \in 1..Len(config) : ~Resolvable(config[i])
    THEN CHOOSE i \in 1..Len(config) :
           /\ ~Resolvable(config[i])
           /\ \A k \in 1..(i - 1) : Resolvable(config[k])
    ELSE Len(config) + 1

AllResolvable == FirstUnresolved = Len(config) + 1

Connected(n) == providers[n] # NoConn

AllConnected == \A i \in 1..Len(config) : Connected(config[i].name)

Bound(n, t) == contracts[n].tokens[t] # NoBinding

SomeBinding == \E n \in AllNets, t \in AllToks : Bound(n, t)

Finished(c, op) == calls[c].op = op /\ calls[c].pc = "done"

\* ------------------------------------------------------------------------
\* C1
\* ------------------------------------------------------------------------
\* C1: resolveRpcUrl answers the testnet endpoint exactly when environment
\* is 0 and the mainnet endpoint otherwise, and throws, never answering the
\* other endpoint, when the selected one is absent or empty.
C1_ResolveSelectsByEnvironment ==
  resolved.asked =>
    LET net == RawNets[resolved.index]
        selected == IF net.hasRpcUrl
                      THEN (IF net.environment = 0 THEN net.testnet ELSE net.mainnet)
                      ELSE Absent
    IN  IF selected \in {Absent, ""}
          THEN ~resolved.ok
          ELSE resolved.ok /\ resolved.url = selected

\* resolveRpcUrl was asked for a testnet entry with an empty testnet field
\* and a usable mainnet field, and threw
C1_Witness ==
  /\ resolved.asked
  /\ ~resolved.ok
  /\ RawNets[resolved.index].environment = 0
  /\ RawNets[resolved.index].hasRpcUrl
  /\ RawNets[resolved.index].testnet = ""
  /\ RawNets[resolved.index].mainnet = "m"

\* ------------------------------------------------------------------------
\* C2
\* ------------------------------------------------------------------------
\* C2 as stated: no client exists for a configuration in which some network
\* has neither a testnet nor a mainnet endpoint.
C2_NoClientWithoutEndpoints ==
  client = "ready" => \A i \in 1..Len(RawNets) : ~LacksBothEndpoints(RawNets[i])

\* C2 amended: the constructor fails exactly when the networks table or some
\* network's rpcUrl object is missing; an rpcUrl object holding neither
\* endpoint passes normalisation.
C2_ConstructorFailsOnMissingRpcUrl ==
  client # "none" =>
    /\ (\E i \in 1..Len(RawNets) : ~RawNets[i].hasRpcUrl) => client = "failed"
    /\ (rawConfig.hasNetworks /\ \A i \in 1..Len(RawNets) : RawNets[i].hasRpcUrl)
         => client = "ready"

\* the constructor rejected a configuration whose network has no rpcUrl
C2_Witness ==
  /\ client = "failed"
  /\ \E i \in 1..Len(RawNets) : ~RawNets[i].hasRpcUrl

\* ------------------------------------------------------------------------
\* C3
\* ------------------------------------------------------------------------
\* C3: after normalisation every token that supplied contractAddress or
\* address carries one canonical contractAddress: the supplied
\* contractAddress when there is one, else the supplied address.
C3_CanonicalContractAddress ==
  client = "ready" =>
    \A i \in 1..Len(RawNets) : \A j \in 1..Len(RawNets[i].tokens) :
      LET tk == RawNets[i].tokens[j]
          canonical == config[i].tokens[j].contractAddress
      IN  (Supplied(tk.contractAddress) \/ Supplied(tk.address)) =>
            /\ canonical \notin {Absent, ""}
            /\ Supplied(tk.contractAddress) => canonical = tk.contractAddress
            /\ ~Supplied(tk.contractAddress) => canonical = tk.address

\* a token that supplied both fields was normalised to its contractAddress
C3_Witness ==
  /\ client = "ready"
  /\ \E i \in 1..Len(RawNets) : \E j \in 1..Len(RawNets[i].tokens) :
       /\ RawNets[i].tokens[j].contractAddress = "0xA"
       /\ RawNets[i].tokens[j].address = "0xB"
       /\ config[i].tokens[j].contractAddress = "0xA"

\* ------------------------------------------------------------------------
\* C4
\* ------------------------------------------------------------------------
\* C4: when some configured endpoint does not resolve, no connectNetworks
\* call returns true, and neither the first such network nor any network
\* after it in configuration order ever has a connection.
C4_ConnectFailsAtFirstUnresolved ==
  (client = "ready" /\ ~AllResolvable) =>
    /\ \A c \in Callers : Finished(c, "connectNetworks") => calls[c].result = "ConfigError"
    /\ \A k \in FirstUnresolved..Len(config) : ~Connected(config[k].name)

\* connectNetworks failed on the second network after connecting the first
C4_Witness ==
  /\ client = "ready"
  /\ FirstUnresolved = 2
  /\ Connected(config[1].name)
  /\ \E c \in Callers : Finished(c, "connectNetworks") /\ calls[c].result = "ConfigError"

\* ------------------------------------------------------------------------
\* C5
\* ------------------------------------------------------------------------
\* C5: when some configured endpoint does not resolve, no loadContracts call
\* returns true and the contract registry never holds a binding.
C5_ConfigErrorBlocksLoading ==
  (client = "ready" /\ ~AllResolvable) =>
    /\ \A c \in Callers : Finished(c, "loadContracts") => calls[c].result # "true"
    /\ ~SomeBinding

\* ------------------------------------------------------------------------
\* C6
\* ------------------------------------------------------------------------
HasAddress(tk) == Truthy(JsOr(tk.contractAddress, tk.address))

\* every configured token that has an address is bound on its network
AllBound ==
  \A i \in 1..Len(config) : \A j \in 1..Len(config[i].tokens) :
    HasAddress(config[i].tokens[j]) => Bound(config[i].name, config[i].tokens[j].name)

\* caller c's loadContracts call suspends on connectNetworks in this step
Suspends(c) == calls'[c].pc = "awaitConnect" /\ calls[c].pc # "awaitConnect"

\* caller c's loadContracts call returns true in this step
ReturnsTrue(c) ==
  /\ calls'[c] # calls[c]
  /\ calls'[c].op = "loadContracts"
  /\ calls'[c].pc = "done"
  /\ calls'[c].result = "true"

\* C6: with every endpoint resolvable, a loadContracts call that finds no
\* connection first connects every configured network, building nothing,
\* bindings are only ever built with every network connected, and a call
\* that returns true leaves every network connected and every token that
\* has an address bound.
C6_LoadConnectsBeforeBinding ==
  [][AllResolvable =>
       /\ \A c \in Callers : Suspends(c) =>
            ProviderCount(providers) = 0 /\ AllConnected' /\ contracts' = contracts
       /\ contracts' # contracts => AllConnected
       /\ \A c \in Callers : ReturnsTrue(c) => AllConnected' /\ AllBound'
    ]_vars

\* a loadContracts call that connected two networks itself returned true
\* with a binding built
C6_Witness ==
  /\ AllResolvable
  /\ Len(config) = 2
  /\ SomeBinding
  /\ \E c \in Callers :
       /\ Finished(c, "loadContracts")
       /\ calls[c].bootstrapped
       /\ calls[c].result = "true"

\* ------------------------------------------------------------------------
\* C7
\* ------------------------------------------------------------------------
\* (network, token) positions of the tokens given neither address field
Incomplete ==
  {p \in (1..Len(RawNets)) \X (1..MaxTokens) :
     /\ p[2] <= Len(RawNets[p[1]].tokens)
     /\ ~Supplied(RawNets[p[1]].tokens[p[2]].contractAddress)
     /\ ~Supplied(RawNets[p[1]].tokens[p[2]].address)}

AddressOf(ctrs) == [n \in AllNets |-> [t \in AllToks |-> ctrs[n].tokens[t].address]]

\* some loadContracts call has built the registry
Loaded == Len(config) > 0 /\ \A i \in 1..Len(config) : contracts[config[i].name].init

\* C8: once loadContracts has built the registry, a further loadContracts
\* call leaves the same (network, token) pairs bound to the same addresses.
C8_LoadIsIdempotentOnAddresses ==
  [][Loaded => AddressOf(contracts') = AddressOf(contracts)]_vars

\* both callers' loadContracts calls returned true over a registry that
\* holds a binding
C8_Witness ==
  /\ SomeBinding
  /\ \A c \in Callers : Finished(c, "loadContracts") /\ calls[c].result = "true"

\* ------------------------------------------------------------------------
\* C9
\* ------------------------------------------------------------------------
NoRpcIssued(call) ==
  /\ call.nativeReads = 0
  /\ call.balReads = 0
  /\ call.decReads = 0
  /\ call.submits = 0
  /\ call.waits = 0

\* C9: a getNativeBalance, transferNative or transferToken call naming a
\* network without connection has failed with the not-connected error
\* having issued no read and no submission.
C9_NotConnectedBeforeAnyRpc ==
  \A c \in Callers :
    (calls[c].op \in {"getNativeBalance", "transferNative", "transferToken"}
       /\ ~Connected(calls[c].net)) =>
      /\ calls[c].pc = "done"
      /\ calls[c].result = "NotConnected"
      /\ NoRpcIssued(calls[c])

\* with a network connected, transferNative on a name that is not in the
\* configuration failed with the not-connected error
C9_Witness ==
  /\ \E n \in AllNets : Connected(n)
  /\ \E c \in Callers :
       /\ Finished(c, "transferNative")
       /\ calls[c].net \notin NetNamesOf(config)
       /\ calls[c].result = "NotConnected"

\* ------------------------------------------------------------------------
\* C10
\* ------------------------------------------------------------------------
\* C10: a getTokenBalance call naming a (network, token) pair without
\* binding has failed with the not-found error having issued neither read.
C10_NotFoundBeforeAnyRead ==
  \A c \in Callers :
    (calls[c].op = "getTokenBalance" /\ ~Bound(calls[c].net, calls[c].tok)) =>
      /\ calls[c].pc = "done"
      /\ calls[c].result = "NotFound"
      /\ NoRpcIssued(calls[c])

\* getTokenBalance on a connected network whose token has no binding failed
\* with the not-found error
C10_Witness ==
  \E c \in Callers :
    /\ Finished(c, "getTokenBalance")
    /\ Connected(calls[c].net)
    /\ ~Bound(calls[c].net, calls[c].tok)
    /\ calls[c].result = "NotFound"

\* ------------------------------------------------------------------------
\* C11
\* ------------------------------------------------------------------------
\* the decimals entry the configuration holds for token t of network n:
\* <<d>> for the number d, <<>> when there is none
OverrideOf(n, t) ==
  LET entries == {e \in (1..Len(config)) \X (1..MaxTokens) :
                    /\ config[e[1]].name = n
                    /\ e[2] <= Len(config[e[1]].tokens)
                    /\ config[e[1]].tokens[e[2]].name = t}
  IN  IF entries = {} THEN <<>>
      ELSE LET e == CHOOSE e \in entries : TRUE
           IN  config[e[1]].tokens[e[2]].decimals

\* the configuration names a decimals number for the token on the network
HasOverride(n, t) == OverrideOf(n, t) # <<>>

\* C11: a getTokenBalance call on a bound token whose configuration names
\* its decimals issues one balance read and no decimals read.
C11_OverrideSkipsDecimalsRead ==
  \A c \in Callers :
    (calls[c].op = "getTokenBalance" /\ Bound(calls[c].net, calls[c].tok)
       /\ HasOverride(calls[c].net, calls[c].tok)) =>
      calls[c].balReads = 1 /\ calls[c].decReads = 0

\* ------------------------------------------------------------------------
\* C12
\* ------------------------------------------------------------------------
\* the digits of amount scaled by 10^d: the whole part followed by exactly d
\* fractional digits
ScaledDigits(amount, d) ==
  [k \in 1..(Len(amount.whole) + d) |->
     IF k <= Len(amount.whole) THEN amount.whole[k]
     ELSE IF k - Len(amount.whole) <= Len(amount.frac)
            THEN amount.frac[k - Len(amount.whole)]
            ELSE 0]

\* the transferToken call has got past the resolution of its decimals
DecimalsResolved(call) ==
  call.op = "transferToken" /\ call.decimals # <<>>

\* C12: transferToken takes the decimals of the configuration when it names
\* them, issuing no decimals() call; otherwise the answer of decimals(), or
\* 18 when that call fails; what it submits is the amount scaled by them.
C12_DecimalsPrecedence ==
  \A c \in Callers :
    LET call == calls[c]
        override == OverrideOf(call.net, call.tok)
    IN  /\ (call.op = "transferToken" /\ override # <<>>) => call.decReads = 0
        /\ DecimalsResolved(call) =>
             /\ override # <<>> => call.decimals = override
             /\ (override = <<>> /\ call.dec = "ok") =>
                  call.decReads = 1 /\ call.decimals[1] \in OnChainDecimals
             /\ (override = <<>> /\ call.dec = "failed") =>
                  call.decReads = 1 /\ call.decimals = <<18>>
             /\ override = <<>> => call.dec \in {"ok", "failed"}
             /\ call.submits = 1 => call.value = ScaledDigits(call.amount, call.decimals[1])

\* a transferToken call whose decimals() call failed submitted its amount
\* scaled by 18
C12_Witness ==
  \E c \in Callers :
    /\ calls[c].op = "transferToken"
    /\ ~HasOverride(calls[c].net, calls[c].tok)
    /\ calls[c].dec = "failed"
    /\ calls[c].submits = 1
    /\ calls[c].decimals = <<18>>
    /\ Len(calls[c].value) = Len(calls[c].amount.whole) + 18

\* ------------------------------------------------------------------------
\* C13
\* ------------------------------------------------------------------------
IsTransfer(call) == call.op \in {"transferNative", "transferToken"}

\* C13: a transfer call submits at most once; it waits for confirmation
\* only on a submission that was accepted, returns its result only after
\* the confirmation, and on a rejected submission fails with the submission
\* error having neither waited nor submitted again.
C13_SingleSubmission ==
  /\ \A c \in Callers :
       IsTransfer(calls[c]) =>
         /\ calls[c].submits <= 1
         /\ calls[c].waits <= calls[c].submits
         /\ calls[c].pc = "awaitSubmit" => calls[c].submits = 1 /\ calls[c].waits = 0
         /\ calls[c].pc = "awaitConfirm" => calls[c].submits = 1 /\ calls[c].waits = 1
         /\ calls[c].result = "receipt" => calls[c].submits = 1 /\ calls[c].waits = 1
         /\ calls[c].result = "SubmissionError" =>
              calls[c].pc = "done" /\ calls[c].submits = 1 /\ calls[c].waits = 0
         /\ (calls[c].pc = "done" /\ calls[c].submits = 1) =>
              calls[c].result \in {"receipt", "ConfirmError", "SubmissionError"}

\* a transferToken call failed on a rejected submission after one
\* submission and no wait
C13_Witness ==
  \E c \in Callers :
    /\ calls[c].op = "transferToken"
    /\ calls[c].pc = "done"
    /\ calls[c].result = "SubmissionError"
    /\ calls[c].submits = 1
    /\ calls[c].waits = 0

\* ------------------------------------------------------------------------
\* C14
\* ------------------------------------------------------------------------
\* amount times 10^d is an integer: no non-zero digit beyond the d-th
ExactAt(amount, d) == \A k \in 1..Len(amount.frac) : k > d => amount.frac[k] = 0

ReadingOps ==
  {"getNativeBalance", "getTokenBalance", "transferNative", "transferToken",
   "getProvider", "getContract"}

\* this step starts, resumes or ends a reading or transferring call
ReadingStep == \E c \in Callers : calls'[c] # calls[c] /\ calls'[c].op \in ReadingOps

\* C15: no step of getNativeBalance, getTokenBalance, transferNative,
\* transferToken, getProvider or getContract, succeeding or failing and
\* whatever the other task is in the middle of, changes the providers, the
\* contracts or the configuration.
C15_ReadsLeaveRegistries ==
  [][ReadingStep =>
       /\ providers' = providers
       /\ contracts' = contracts
       /\ config' = config
    ]_vars

\* over a loaded registry one task has read a token balance while the
\* other's transfer awaits its confirmation
C15_Witness ==
  /\ SomeBinding
  /\ \E c, o \in Callers :
       /\ calls[c].op = "getTokenBalance"
       /\ calls[c].result = "balance"
       /\ calls[o].op = "transferToken"
       /\ calls[o].pc = "awaitConfirm"

\* ------------------------------------------------------------------------
\* C16
\* ------------------------------------------------------------------------
\* this step is a whole connectNetworks call of one caller
ConnectStep ==
  \E c \in Callers :
    /\ calls[c].pc \in {"idle", "done"}
    /\ calls'[c].op = "connectNetworks"
    /\ calls'[c].pc = "done"
    /\ \A o \in Callers \ {c} : calls'[o] = calls[o]

\* C16 as stated: once a network has a connection no step replaces it by
\* another connection object.
C16_ConnectionNeverReplaced ==
  [][\A n \in AllNets : Connected(n) => providers'[n] = providers[n]]_vars

\* C16 amended: a network's connection is never removed, and it is replaced
\* by a new connection object only by a connectNetworks call made by the
\* application, never by loadContracts, a balance read or a transfer.
C16_ReplacedOnlyByConnectNetworks ==
  [][\A n \in AllNets :
       Connected(n) =>
         /\ providers'[n] # NoConn
         /\ providers'[n] # providers[n] =>
              /\ ConnectStep
              /\ providers'[n].url = providers[n].url
              /\ providers'[n].id > providers[n].id
    ]_vars

\* a second connectNetworks call has replaced a network's connection
C16_Witness ==
  /\ \E n \in AllNets : providers[n].id = 2
  /\ \E c \in Callers : Finished(c, "connectNetworks") /\ calls[c].result = "true"

\* ------------------------------------------------------------------------
\* C17
\* ------------------------------------------------------------------------
\* C17: getTokenBalance issues both reads before awaiting either; whichever
\* settles first, a failed balance read fails the call, and with the
\* balance read the call succeeds, formatting with the decimals read or
\* with 18 when the decimals read failed.
C17_ReadsAreIndependent ==
  \A c \in Callers :
    LET call == calls[c]
    IN  (call.op = "getTokenBalance" /\ call.result # "NotFound") =>
          /\ call.balReads = 1 /\ call.decReads = 1
          /\ call.pc = "awaitReads" => call.bal # "failed"
          /\ call.bal = "failed" => call.pc = "done" /\ call.result = "TransportError"
          /\ (call.bal = "ok" /\ call.dec = "failed") =>
               call.pc = "done" /\ call.result = "balance" /\ call.decimals = <<18>>
          /\ (call.bal = "ok" /\ call.dec = "ok") =>
               /\ call.pc = "done"
               /\ call.result = "balance"
               /\ call.decimals # <<>>
               /\ call.decimals[1] \in OnChainDecimals
          /\ call.pc = "done" => call.bal # "pending"

\* a getTokenBalance call whose decimals read failed on a connected
\* contract returned the balance formatted with 18 decimals
C17_Witness ==
  \E c \in Callers :
    /\ calls[c].op = "getTokenBalance"
    /\ calls[c].contract.runner # NoConn
    /\ calls[c].bal = "ok"
    /\ calls[c].dec = "failed"
    /\ calls[c].result = "balance"
    /\ calls[c].decimals = <<18>>

\* ------------------------------------------------------------------------
\* C18
\* ------------------------------------------------------------------------
\* C18: every binding of the contract registry was built with a connection,
\* on a network that has one.
C18_BindingsHaveConnection ==
  \A n \in AllNets, t \in AllToks :
    Bound(n, t) => contracts[n].tokens[t].runner # NoConn /\ Connected(n)

\* ------------------------------------------------------------------------
\* C19
\* ------------------------------------------------------------------------
\* C19 as stated: every binding references the connection the provider
\* registry holds for its network.
C19_BindingUsesCurrentConnection ==
  \A n \in AllNets, t \in AllToks :
    Bound(n, t) => contracts[n].tokens[t].runner = providers[n]

\* C19 amended: when a loadContracts call returns true every binding
\* references the connection then held for its network; afterwards a binding
\* references that connection or, once connectNetworks has replaced it, the
\* replaced connection to the same endpoint.
C19_BindingUsesConnectionOfItsLoad ==
  [][/\ (\E c \in Callers : ReturnsTrue(c)) =>
          \A n \in AllNets, t \in AllToks :
            contracts'[n].tokens[t] # NoBinding =>
              contracts'[n].tokens[t].runner = providers'[n]
     /\ \A n \in AllNets, t \in AllToks :
          contracts'[n].tokens[t] # NoBinding =>
            /\ contracts'[n].tokens[t].runner.url = providers'[n].url
            /\ contracts'[n].tokens[t].runner.id <= providers'[n].id
    ]_vars

\* a binding references the connection that a later connectNetworks call
\* replaced
C19_Witness ==
  \E n \in AllNets, t \in AllToks :
    /\ Bound(n, t)
    /\ contracts[n].tokens[t].runner.id = 1
    /\ providers[n].id = 2
    /\ contracts[n].tokens[t].runner.url = providers[n].url

\* ------------------------------------------------------------------------
\* C20
\* ------------------------------------------------------------------------
\* the address a single loadContracts call binds (n, t) to, Absent when the
\* configuration has no such token or the token has no address
ExpectedAddress(n, t) ==
  IF \E i \in 1..Len(config) : \E j \in 1..Len(config[i].tokens) :
       /\ config[i].name = n /\ config[i].tokens[j].name = t
       /\ HasAddress(config[i].tokens[j])
    THEN LET i == CHOOSE i \in 1..Len(config) : config[i].name = n
             j == CHOOSE j \in 1..Len(config[i].tokens) : config[i].tokens[j].name = t
         IN  JsOr(config[i].tokens[j].contractAddress, config[i].tokens[j].address)
    ELSE Absent

\* the endpoint a single connectNetworks run connects n to
ExpectedEndpoint(n) ==
  IF n \in NetNamesOf(config)
    THEN SelectedEndpoint(config[CHOOSE i \in 1..Len(config) : config[i].name = n])
    ELSE Absent

BothLoadsEnded == \A c \in Callers : Finished(c, "loadContracts")

\* C20: on a fresh client with every endpoint resolvable, once two
\* overlapping loadContracts calls have both ended, both returned true, the
\* connected networks are the configured ones at their selected endpoints,
\* and the bound (network, token) pairs and their addresses are those of a
\* single loadContracts call.
C20_TwoLoadsAsOne ==
  (client = "ready" /\ AllResolvable /\ BothLoadsEnded) =>
    /\ \A c \in Callers : calls[c].result = "true"
    /\ \A n \in AllNets :
         /\ Connected(n) <=> n \in NetNamesOf(config)
         /\ providers[n].url = ExpectedEndpoint(n)
         /\ contracts[n].init <=> n \in NetNamesOf(config)
    /\ \A n \in AllNets, t \in AllToks :
         /\ contracts[n].tokens[t].address = ExpectedAddress(n, t)
         /\ Bound(n, t) <=> ExpectedAddress(n, t) # Absent
         /\ Bound(n, t) => contracts[n].tokens[t].runner = providers[n]

\* both calls ended on a two-network configuration, the first one having
\* suspended on connectNetworks while the other ran, with a binding built
C20_Witness ==
  /\ AllResolvable
  /\ Len(config) = 2
  /\ BothLoadsEnded
  /\ SomeBinding
  /\ \E c \in Callers : calls[c].bootstrapped
  /\ \E c \in Callers : ~calls[c].bootstrapped

====
